---- MODULE Spec2Model ----
(***************************************************************************)
(* Two-Handed optimisation (src/TwoHand.ipynb, class TwoHanded).           *)
(*                                                                         *)
(* Numbers.  Scores and coordinates are Python floats.  They are modelled  *)
(* as extended numbers: a finite integer, or one of the IEEE specials NaN, *)
(* +inf, -inf, with the IEEE rules for +, - and >.  Coordinates are        *)
(* measured in units of the finite-difference step dx = 1e-10 and scores   *)
(* in units of dx * dx / learnRate = 1e-18; in these units dx and          *)
(* learnRate are both 1 and x' = x + ((Y2 - Y1) / dx) * learnRate moves a  *)
(* coordinate by the difference of the two scores.  Rounding and overflow  *)
(* of finite floats are not modelled.                                      *)
(***************************************************************************)
EXTENDS Integers, Sequences, FiniteSets, TLC

\* ---------------------------------------------------------------- bounds
MaxIterations == 2    \* numIterations is drawn from 0..MaxIterations
MaxCalls == 2         \* optimize is called at most MaxCalls times
MaxWeight == 1        \* leftPoints is drawn from 0..MaxWeight
MaxDim == 2           \* the search space has 0..MaxDim dimensions

\* ------------------------------------------------------ program constants
dx == 1               \* gradientStep's dx = 10 ** (-10), in coordinate units
learnRate == 1        \* gradientStep's learnRate = 0.01, in score units per dx * dx

\* ------------------------------------------------------ extended numbers
Fin(n) == [k |-> "fin", v |-> n]
NaN == [k |-> "nan", v |-> 0]
PInf == [k |-> "pinf", v |-> 0]
NInf == [k |-> "ninf", v |-> 0]

IsFinite(a) == a.k = "fin"

\* float a + b
ExtAdd(a, b) ==
    IF a.k = "nan" \/ b.k = "nan" THEN NaN
    ELSE IF a.k = "fin" /\ b.k = "fin" THEN Fin(a.v + b.v)
    ELSE IF a.k = "fin" THEN b
    ELSE IF b.k = "fin" THEN a
    ELSE IF a.k = b.k THEN a
    ELSE NaN

\* float -a
ExtNeg(a) ==
    IF a.k = "fin" THEN Fin(-a.v)
    ELSE IF a.k = "pinf" THEN NInf
    ELSE IF a.k = "ninf" THEN PInf
    ELSE NaN

\* float a - b
ExtSub(a, b) == ExtAdd(a, ExtNeg(b))

\* float a > b: False whenever an operand is NaN
Gt(a, b) ==
    /\ a.k # "nan"
    /\ b.k # "nan"
    /\ \/ a.k = "pinf" /\ b.k # "pinf"
       \/ b.k = "ninf" /\ a.k # "ninf"
       \/ a.k = "fin" /\ b.k = "fin" /\ a.v > b.v

\* float a >= b
Geq(a, b) ==
    /\ a.k # "nan"
    /\ b.k # "nan"
    /\ (Gt(a, b) \/ a = b)

\* Python None and a list value
None == [none |-> TRUE, x |-> <<>>]
Some(x) == [none |-> FALSE, x |-> x]

\* ------------------------------------------------------------ the inputs
\* The bounds of dimension k of the search spaces tried: [lo, hi], lo <= hi,
\* with lo + hi even so that the midpoint is a whole number of units.  The
\* first dimension has three sample points, the others one (lo = hi).
RangeOf(k) == IF k = 1 THEN <<0, 2>> ELSE <<1, 1>>

\* The ranges arguments tried: one search space per dimensionality.
RangesInputs == {[k \in 1..d |-> RangeOf(k)] : d \in 0..MaxDim}

\* The leftPoints arguments tried (the constructor takes any), and the
\* rightPoints arguments tried: zero and the default.
WeightInputs == 0..MaxWeight
RightWeightInputs == {0, 1}

\* The objective functions tried, by name.
FiniteObjectives == {"negsq", "const"}
ObjectiveInputs == FiniteObjectives \cup {"nanodd", "pole", "raising"}

RECURSIVE ExtSum(_)
ExtSum(x) == IF x = <<>> THEN Fin(0) ELSE ExtAdd(x[1], ExtSum(Tail(x)))

\* -(c - 1)^2 in float arithmetic
NegSqTerm(c) ==
    IF c.k = "fin" THEN Fin(-((c.v - 1) * (c.v - 1)))
    ELSE IF c.k = "nan" THEN NaN
    ELSE NInf

Returns(y) == [raise |-> FALSE, y |-> y]
Raises == [raise |-> TRUE, y |-> NaN]

\* objectiveFunction(x): the value returned, or an exception raised.
\*   negsq    -sum (x_i - 1)^2, one maximum
\*   const    0 everywhere (every candidate ties)
\*   nanodd   NaN where sum x_i is odd or not finite, else sum x_i
\*   pole     +inf where sum x_i >= 2, else sum x_i
\*   raising  raises where sum x_i is 0 or not finite, else -(sum x_i - 2)^2
Objective(f, x) ==
    LET s == ExtSum(x) IN
    CASE f = "negsq" -> Returns(ExtSum([k \in 1..Len(x) |-> NegSqTerm(x[k])]))
      [] f = "const" -> Returns(Fin(0))
      [] f = "nanodd" -> IF IsFinite(s) /\ s.v % 2 = 0 THEN Returns(s) ELSE Returns(NaN)
      [] f = "pole" -> IF s.k = "fin" /\ s.v >= 2 THEN Returns(PInf) ELSE Returns(s)
      [] f = "raising" -> IF IsFinite(s) /\ s.v # 0
                          THEN Returns(Fin(-((s.v - 2) * (s.v - 2))))
                          ELSE Raises

\* --------------------------------------------------------------- helpers
\* generateRandomHypothesis: r.uniform(x[0], x[1]) per dimension; the points
\* of [lo, hi] that are a whole number of units.
RECURSIVE Samples(_)
Samples(rs) ==
    IF rs = <<>> THEN {<<>>}
    ELSE {<<Fin(c)>> \o t : c \in rs[1][1]..rs[1][2], t \in Samples(Tail(rs))}

\* [np.mean(x) for x in self.ranges]
Midpoint(rs) == [k \in 1..Len(rs) |-> Fin((rs[k][1] + rs[k][2]) \div 2)]

\* selectLeftOrRight with leftPoints + rightPoints # 0: the decisions that
\* r.uniform(0, 1) < probLeft can give, u ranging over [0, 1).
\* "L" needs 0 < l / (l + r); "R" needs l / (l + r) < 1, that is 0 < r / (l + r).
SelectOutcomes(l, r) ==
    {d \in {"L", "R"} : \/ d = "L" /\ l * (l + r) > 0
                        \/ d = "R" /\ r * (l + r) > 0}

\* (Y2 - Y1) / dx
Gradient(Y1, Y2) ==
    LET diff == ExtSub(Y2, Y1) IN
    IF IsFinite(diff) THEN Fin(diff.v \div dx) ELSE diff

\* outputX[i] += gradientVector[i] * learnRate
OutputX(x, g) ==
    [k \in 1..Len(x) |->
        ExtAdd(x[k], IF IsFinite(g[k]) THEN Fin(g[k].v * learnRate) ELSE g[k])]

\* for i in range(numIterations): the loop body runs again after i passes.
LoopContinues_OffByOne(done, n) == done <= n

LoopContinues(done, n) == done < n

\* The weights a call of optimize begins with: optimize assigns neither field
\* on entry, so they are the instance's (l, r), whatever the constructor's
\* arguments (cl, cr) were.
WeightsAtEntry_Fresh(l, r, cl, cr) == <<cl, cr>>

WeightsAtEntry(l, r, cl, cr) == <<l, r>>

\* The evaluations at the unmoved clone in pass k of gradientStep's first
\* loop: Y1 is computed inside the loop, once per pass.
BaseEvaluations_Hoisted(k) == IF k = 1 THEN 1 ELSE 0

BaseEvaluations(k) == 1

\* LeftCompare crediting nobody when the candidate does not improve.
LeftCompare_NoCredit(nX, nY, cX, cY, l, r) ==
    IF Gt(nY, cY)
    THEN [x |-> Some(nX), y |-> nY, l |-> l + 1, r |-> r]
    ELSE [x |-> cX, y |-> cY, l |-> l, r |-> r]

\* LeftCompare comparing with >= : a tie replaces the best.
LeftCompare_TieAdopts(nX, nY, cX, cY, l, r) ==
    IF Geq(nY, cY)
    THEN [x |-> Some(nX), y |-> nY, l |-> l + 1, r |-> r]
    ELSE [x |-> cX, y |-> cY, l |-> l, r |-> r + 1]

\* The comparison of the exploratory branch: the new state of
\* (currentX, currentY, leftPoints, rightPoints).
LeftCompare(nX, nY, cX, cY, l, r) ==
    IF Gt(nY, cY)
    THEN [x |-> Some(nX), y |-> nY, l |-> l + 1, r |-> r]
    ELSE [x |-> cX, y |-> cY, l |-> l, r |-> r + 1]

\* RightCompare taking the stepped point whatever its score.
RightCompare_AlwaysAdopt(nX, nY, cX, cY, l, r) ==
    [x |-> Some(nX), y |-> nY, l |-> l, r |-> r + 1]

\* RightCompare recording the new score but not the new point.
RightCompare_KeepsPoint(nX, nY, cX, cY, l, r) ==
    IF Gt(nY, cY)
    THEN [x |-> cX, y |-> nY, l |-> l, r |-> r + 1]
    ELSE [x |-> cX, y |-> cY, l |-> l + 1, r |-> r]

\* The comparison of the exploitative branch.
RightCompare(nX, nY, cX, cY, l, r) ==
    IF Gt(nY, cY)
    THEN [x |-> Some(nX), y |-> nY, l |-> l, r |-> r + 1]
    ELSE [x |-> cX, y |-> cY, l |-> l + 1, r |-> r]

\* ----------------------------------------------------------------- state
VARIABLES
    ranges, leftPoints, rightPoints,        \* the instance's fields
    pc,                                     \* where the program is
    objectiveFunction, numIterations,       \* optimize's arguments
    i, currentX, currentY, newX, newY,      \* optimize's locals
    gi, gradientVector,                     \* gradientStep's loop index and list
    outcome, result,                        \* how the last call ended, its value
    ctorLeft, ctorRight,                    \* history: the constructor's arguments
    startLeft, startRight,                  \* history: the weights when the call began
    nCalls,                                 \* history: calls of optimize so far
    selCalls, sampCalls, gradCalls, objCalls, \* history: calls made by this call
    gradBase, gradPert                      \* history: evaluations of this gradientStep

fields == <<ranges, leftPoints, rightPoints>>
args == <<objectiveFunction, numIterations>>
locals == <<i, currentX, currentY, newX, newY>>
gradLocals == <<gi, gradientVector>>
hist == <<ctorLeft, ctorRight, startLeft, startRight, nCalls>>
counters == <<selCalls, sampCalls, gradCalls, objCalls, gradBase, gradPert>>
vars == <<fields, pc, args, locals, gradLocals, outcome, result, hist, counters>>

\* TwoHanded(ranges, leftPoints, rightPoints): the fields are the arguments.
Init ==
    /\ ranges \in RangesInputs
    /\ leftPoints \in WeightInputs
    /\ rightPoints \in RightWeightInputs
    /\ ctorLeft = leftPoints
    /\ ctorRight = rightPoints
    /\ pc = "idle"
    /\ outcome = "none"
    /\ result = None
    /\ objectiveFunction = "const"
    /\ numIterations = 0
    /\ i = 0
    /\ currentX = None
    /\ currentY = NInf
    /\ newX = <<>>
    /\ newY = NInf
    /\ gi = 1
    /\ gradientVector = <<>>
    /\ startLeft = leftPoints
    /\ startRight = rightPoints
    /\ nCalls = 0
    /\ selCalls = 0
    /\ sampCalls = 0
    /\ gradCalls = 0
    /\ objCalls = 0
    /\ gradBase = 0
    /\ gradPert = 0

\* optimize(f, n) is entered: currentX = None, currentY = -inf, loop not begun.
Optimize(f, n) ==
    /\ pc = "idle"
    /\ nCalls < MaxCalls
    /\ pc' = "loop"
    /\ objectiveFunction' = f
    /\ numIterations' = n
    /\ i' = 0
    /\ currentX' = None
    /\ currentY' = NInf
    /\ newX' = <<>>
    /\ newY' = NInf
    /\ gi' = 1
    /\ gradientVector' = <<>>
    /\ outcome' = "running"
    /\ result' = None
    /\ leftPoints' = WeightsAtEntry(leftPoints, rightPoints, ctorLeft, ctorRight)[1]
    /\ rightPoints' = WeightsAtEntry(leftPoints, rightPoints, ctorLeft, ctorRight)[2]
    /\ startLeft' = leftPoints'
    /\ startRight' = rightPoints'
    /\ nCalls' = nCalls + 1
    /\ selCalls' = 0
    /\ sampCalls' = 0
    /\ gradCalls' = 0
    /\ objCalls' = 0
    /\ gradBase' = 0
    /\ gradPert' = 0
    /\ UNCHANGED <<ranges, ctorLeft, ctorRight>>

\* An exception leaves optimize: the locals are gone, the fields stay.
Abort(what) ==
    /\ pc' = "idle"
    /\ outcome' = what
    /\ UNCHANGED <<fields, args, result, hist>>

\* The loop goes on: leftRightDecision = self.selectLeftOrRight().
Select ==
    /\ pc = "loop"
    /\ LoopContinues(i, numIterations)
    /\ selCalls' = selCalls + 1
    /\ UNCHANGED <<locals, gradLocals, sampCalls, gradCalls, objCalls, gradBase, gradPert>>
    /\ IF leftPoints + rightPoints = 0
       THEN Abort("ZeroDivisionError")
       ELSE /\ \E d \in SelectOutcomes(leftPoints, rightPoints) : pc' = d
            /\ UNCHANGED <<fields, args, outcome, result, hist>>

\* The loop is over: return(currentX).
Return ==
    /\ pc = "loop"
    /\ ~LoopContinues(i, numIterations)
    /\ pc' = "idle"
    /\ outcome' = "returned"
    /\ result' = currentX
    /\ UNCHANGED <<fields, args, locals, gradLocals, hist, counters>>

\* The exploratory branch: a random hypothesis, its score, the comparison.
LeftBranch ==
    /\ pc = "L"
    /\ \E nX \in Samples(ranges) :
         LET res == Objective(objectiveFunction, nX) IN
         /\ newX' = nX
         /\ sampCalls' = sampCalls + 1
         /\ objCalls' = objCalls + 1
         /\ UNCHANGED <<ranges, gradLocals, selCalls, gradCalls, gradBase, gradPert>>
         /\ IF res.raise
            THEN /\ Abort("ObjectiveError")
                 /\ UNCHANGED <<i, currentX, currentY, newY>>
            ELSE LET upd == LeftCompare(nX, res.y, currentX, currentY,
                                        leftPoints, rightPoints) IN
                 /\ newY' = res.y
                 /\ currentX' = upd.x
                 /\ currentY' = upd.y
                 /\ leftPoints' = upd.l
                 /\ rightPoints' = upd.r
                 /\ i' = i + 1
                 /\ pc' = "loop"
                 /\ UNCHANGED <<args, outcome, result, hist>>

\* The exploitative branch begins: the midpoint stands in for a missing
\* currentX, and gradientStep is entered.
RightSeed ==
    /\ pc = "R"
    /\ currentX' = IF currentX = None THEN Some(Midpoint(ranges)) ELSE currentX
    /\ gradCalls' = gradCalls + 1
    /\ gradBase' = 0
    /\ gradPert' = 0
    /\ gi' = 1
    /\ gradientVector' = <<>>
    /\ pc' = "grad"
    /\ UNCHANGED <<fields, args, i, currentY, newX, newY, outcome, result, hist,
                   selCalls, sampCalls, objCalls>>

\* One pass of gradientStep's first loop: Y1 at the clone, Y2 at the clone
\* with coordinate gi moved by dx, and the quotient appended.
GradLoop ==
    /\ pc = "grad"
    /\ gi <= Len(currentX.x)
    /\ LET cloneX == currentX.x
           r1 == Objective(objectiveFunction, cloneX)
           moved == [cloneX EXCEPT ![gi] = ExtAdd(@, Fin(dx))]
           r2 == Objective(objectiveFunction, moved)
       IN
       /\ UNCHANGED <<locals, selCalls, sampCalls, gradCalls>>
       /\ gradBase' = gradBase + BaseEvaluations(gi)
       /\ IF r1.raise
          THEN /\ Abort("ObjectiveError")
               /\ objCalls' = objCalls + BaseEvaluations(gi)
               /\ UNCHANGED <<gradLocals, gradPert>>
          ELSE IF r2.raise
          THEN /\ Abort("ObjectiveError")
               /\ objCalls' = objCalls + BaseEvaluations(gi) + 1
               /\ gradPert' = gradPert + 1
               /\ UNCHANGED gradLocals
          ELSE /\ objCalls' = objCalls + BaseEvaluations(gi) + 1
               /\ gradPert' = gradPert + 1
               /\ gradientVector' = Append(gradientVector, Gradient(r1.y, r2.y))
               /\ gi' = gi + 1
               /\ pc' = "grad"
               /\ UNCHANGED <<fields, args, outcome, result, hist>>

\* gradientStep's second loop and its return: newX is the stepped point, and
\* gradientStep's own locals are gone.
GradReturn ==
    /\ pc = "grad"
    /\ gi > Len(currentX.x)
    /\ newX' = OutputX(currentX.x, gradientVector)
    /\ gi' = 1
    /\ gradientVector' = <<>>
    /\ pc' = "Reval"
    /\ UNCHANGED <<fields, args, i, currentX, currentY, newY, outcome, result, hist,
                   counters>>

\* The exploitative branch ends: the score of newX and the comparison.
RightEvaluate ==
    /\ pc = "Reval"
    /\ LET res == Objective(objectiveFunction, newX) IN
       /\ objCalls' = objCalls + 1
       /\ UNCHANGED <<ranges, newX, gradLocals, selCalls, sampCalls, gradCalls,
                      gradBase, gradPert>>
       /\ IF res.raise
          THEN /\ Abort("ObjectiveError")
               /\ UNCHANGED <<i, currentX, currentY, newY>>
          ELSE LET upd == RightCompare(newX, res.y, currentX, currentY,
                                       leftPoints, rightPoints) IN
               /\ newY' = res.y
               /\ currentX' = upd.x
               /\ currentY' = upd.y
               /\ leftPoints' = upd.l
               /\ rightPoints' = upd.r
               /\ i' = i + 1
               /\ pc' = "loop"
               /\ UNCHANGED <<args, outcome, result, hist>>

Next ==
    \/ \E f \in ObjectiveInputs, n \in 0..MaxIterations : Optimize(f, n)
    \/ Select
    \/ Return
    \/ LeftBranch
    \/ RightSeed
    \/ GradLoop
    \/ GradReturn
    \/ RightEvaluate

Spec == Init /\ [][Next]_vars

\* ---------------------------------------------------------------- claims
\* An iteration completes in this step (the comparison of either branch ran).
IterationStep == pc \in {"L", "Reval"} /\ i' = i + 1

NonFinite(a) == a.k \in {"nan", "pinf", "ninf"}

\* The instance was built with the arguments the documentation allows:
\* weights > 0 and a search space of one dimension or more.
ValidConstruction == ctorLeft > 0 /\ ctorRight > 0 /\ Len(ranges) >= 1

\* C1: after i completed iterations of a call, leftPoints + rightPoints is
\* the sum the call began with plus i, and a step that completes an iteration
\* adds exactly 1 to exactly one of the two and leaves the other alone.
C1_WeightSum ==
    /\ [](leftPoints + rightPoints = startLeft + startRight + i)
    /\ [][IterationStep =>
            \/ leftPoints' = leftPoints + 1 /\ rightPoints' = rightPoints
            \/ leftPoints' = leftPoints /\ rightPoints' = rightPoints + 1]_vars

\* Two iterations done, one credited to each counter.
C1_Witness ==
    /\ ValidConstruction
    /\ pc = "loop"
    /\ i = 2
    /\ leftPoints = startLeft + 1
    /\ rightPoints = startRight + 1

\* C2: within a call, currentY after a step is >= currentY before it.
C2_BestScoreMonotone == [][nCalls' = nCalls => Geq(currentY', currentY)]_vars

\* A second candidate scored below a finite best and the best was kept.
C2_Witness ==
    /\ ValidConstruction
    /\ pc = "loop"
    /\ i = 2
    /\ IsFinite(currentY)
    /\ IsFinite(newY)
    /\ Gt(currentY, newY)

\* C3 (as claimed): a call that the objective did not fail ends by returning
\* currentX after exactly numIterations selections and iterations.
C3_Original ==
    (pc = "idle" /\ nCalls >= 1 /\ outcome # "ObjectiveError")
        => /\ outcome = "returned"
           /\ i = numIterations
           /\ selCalls = numIterations
           /\ result = currentX

\* C4: a call with numIterations = 0 selects nothing, samples nothing, takes
\* no gradient step, evaluates nothing, leaves both weights as they were, is
\* at the loop's exit while it runs and returns None.
C4_ZeroIterations ==
    (numIterations = 0 /\ nCalls >= 1)
        => /\ selCalls = 0
           /\ sampCalls = 0
           /\ gradCalls = 0
           /\ objCalls = 0
           /\ leftPoints = startLeft
           /\ rightPoints = startRight
           /\ outcome \in {"running", "returned"}
           /\ outcome = "running" => (pc = "loop" /\ i = 0)
           /\ outcome = "returned" => result = None

\* A call with numIterations = 0 has returned.
C4_Witness ==
    /\ ValidConstruction
    /\ numIterations = 0
    /\ nCalls >= 1
    /\ outcome = "returned"

\* C5 (as claimed), for a validly built instance: a candidate whose score is
\* NaN, +inf or -inf is not adopted, currentY stays, and the weight of the
\* other strategy is credited.
C5_Original ==
    [][(ValidConstruction /\ IterationStep /\ NonFinite(newY'))
          => /\ currentY' = currentY
             /\ currentX' = currentX
             /\ pc = "L" => (rightPoints' = rightPoints + 1 /\ leftPoints' = leftPoints)
             /\ pc = "Reval" => (leftPoints' = leftPoints + 1 /\ rightPoints' = rightPoints)]_vars

\* C6 (as claimed): no instance exists with a weight <= 0.
C6_Original == ctorLeft > 0 /\ ctorRight > 0

\* C7: an iteration whose candidate scores strictly above currentY makes the
\* candidate and its score the best and credits the strategy that ran; any
\* other iteration (a tie included) leaves currentY and credits the other one.
C7_CrossCredit ==
    [][IterationStep =>
         IF Gt(newY', currentY)
         THEN /\ currentY' = newY'
              /\ currentX' = Some(newX')
              /\ pc = "L" => (leftPoints' = leftPoints + 1 /\ rightPoints' = rightPoints)
              /\ pc = "Reval" => (rightPoints' = rightPoints + 1 /\ leftPoints' = leftPoints)
         ELSE /\ currentY' = currentY
              /\ pc = "L" => (rightPoints' = rightPoints + 1 /\ leftPoints' = leftPoints)
              /\ pc = "Reval" => (leftPoints' = leftPoints + 1 /\ rightPoints' = rightPoints)]_vars

\* A candidate tied with a finite best: the best point stayed.
C7_Witness ==
    /\ ValidConstruction
    /\ pc = "loop"
    /\ i = 2
    /\ IsFinite(newY)
    /\ newY = currentY
    /\ currentX # Some(newX)

\* C8 (as claimed), for a validly built instance: gradientStep on a
\* hypothesis of d dimensions evaluates the objective d + 1 times, once at x
\* and once per dimension.
C8_Original ==
    (ValidConstruction /\ pc = "Reval")
        => /\ gradBase + gradPert = Len(currentX.x) + 1
           /\ gradBase = 1
           /\ gradPert = Len(currentX.x)

\* C8 (amended): gradientStep on a hypothesis of d dimensions evaluates the
\* objective 2d times, d times at x and once per dimension at x moved by dx.
C8_TwoPerDimension ==
    pc = "Reval"
        => /\ gradBase + gradPert = 2 * Len(currentX.x)
           /\ gradBase = Len(currentX.x)
           /\ gradPert = Len(currentX.x)

\* gradientStep has returned for a hypothesis of two dimensions.
C8_Witness ==
    /\ ValidConstruction
    /\ pc = "Reval"
    /\ Len(currentX.x) = 2
    /\ gradBase = 2
    /\ gradPert = 2

\* C9 (as claimed), for a validly built instance: a second call begins with
\* currentX None, currentY -inf and the weights the constructor was given.
C9_Original ==
    (ValidConstruction /\ nCalls = 2 /\ pc = "loop" /\ i = 0)
        => /\ currentX = None
           /\ currentY = NInf
           /\ leftPoints = ctorLeft
           /\ rightPoints = ctorRight

\* C9 (amended): every call begins with currentX None and currentY -inf, and
\* with the weights the instance had just before the call.
C9_WeightsPersist ==
    [][nCalls' = nCalls + 1
          => /\ currentX' = None
             /\ currentY' = NInf
             /\ leftPoints' = leftPoints
             /\ rightPoints' = rightPoints]_vars

\* A second call begins with weights the first call has raised.
C9_Witness ==
    /\ ValidConstruction
    /\ nCalls = 2
    /\ pc = "loop"
    /\ i = 0
    /\ currentX = None
    /\ leftPoints + rightPoints > ctorLeft + ctorRight

\* C10: with an objective whose scores are all finite, after every completed
\* iteration currentX is a point and currentY is the objective's value there;
\* a call of one or more iterations returns a point.
C10_BestIsEvaluated ==
    (objectiveFunction \in FiniteObjectives /\ nCalls >= 1)
        => /\ (i >= 1 /\ pc \in {"loop", "idle"})
                => /\ currentX # None
                   /\ Objective(objectiveFunction, currentX.x) = Returns(currentY)
           /\ (outcome = "returned" /\ numIterations >= 1) => result # None

\* The first iteration took the exploitative branch: the midpoint was written
\* to currentX and the stepped point then replaced it.
C10_Witness ==
    /\ ValidConstruction
    /\ objectiveFunction \in FiniteObjectives
    /\ pc = "loop"
    /\ i = 1
    /\ gradCalls = 1
    /\ currentX = Some(newX)
    /\ newX # Midpoint(ranges)

====
